---- MODULE Spec2Model ----
(***************************************************************************)
(* Model of the simulated-device command registry                          *)
(* (handler.SimDeviceCmdHandler): the command normalizer, the positional   *)
(* prefix matcher, and the create / update / delete / get / match handlers *)
(* over the sim_device_commands table.                                     *)
(*                                                                         *)
(* A Go string is a sequence of one-character strings, so that trimming,   *)
(* splitting, lower-casing and prefix tests are computed, not assumed.     *)
(* The table is the sequence of its rows in primary-key order.             *)
(***************************************************************************)
EXTENDS Integers, Sequences, FiniteSets, TLC

VARIABLES
    store,      \* rows of sim_device_commands, ascending id
    nextId,     \* next auto-increment primary key
    inflight,   \* per request slot: the handler's position and locals
    arg,        \* inputs of the pure helpers (SpecPure only)
    last        \* the request last answered and its response

vars == <<store, nextId, inflight, arg, last>>

(***************************************************************************)
(* Bounds                                                                  *)
(***************************************************************************)
MaxId == 2          \* rows ever inserted in Spec and SpecConc
MaxSeed == 3        \* rows ever inserted in SpecRead
MaxLen == 3         \* length of the strings drawn in SpecPure

(***************************************************************************)
(* Go strings                                                              *)
(***************************************************************************)
\* unicode.IsSpace, on the characters modelled
IsSpace(c) == c \in {" ", "\t", "\n", "\r"}

\* unicode.ToLower / SQLite LOWER(), on the letters modelled
ToLowerChar(c) ==
    CASE c = "S" -> "s"
      [] c = "H" -> "h"
      [] c = "I" -> "i"
      [] OTHER -> c

ToLower(s) == [i \in 1..Len(s) |-> ToLowerChar(s[i])]

RECURSIVE TrimLeft(_)
TrimLeft(s) ==
    IF s # <<>> /\ IsSpace(Head(s)) THEN TrimLeft(Tail(s)) ELSE s

RECURSIVE TrimRight(_)
TrimRight(s) ==
    IF s # <<>> /\ IsSpace(s[Len(s)])
    THEN TrimRight(SubSeq(s, 1, Len(s) - 1))
    ELSE s

\* strings.TrimSpace
TrimSpace(s) == TrimRight(TrimLeft(s))

\* strings.ReplaceAll, old non-empty
RECURSIVE ReplaceAll(_, _, _)
ReplaceAll(s, old, new) ==
    IF Len(s) < Len(old) THEN s
    ELSE IF SubSeq(s, 1, Len(old)) = old
         THEN new \o ReplaceAll(SubSeq(s, Len(old) + 1, Len(s)), old, new)
         ELSE <<Head(s)>> \o ReplaceAll(Tail(s), old, new)

RECURSIVE FieldsAcc(_, _)
FieldsAcc(s, cur) ==
    LET done == IF cur = <<>> THEN <<>> ELSE <<cur>>
    IN  IF s = <<>> THEN done
        ELSE IF IsSpace(Head(s)) THEN done \o FieldsAcc(Tail(s), <<>>)
        ELSE FieldsAcc(Tail(s), Append(cur, Head(s)))

\* strings.Fields: the maximal runs of non-space characters
Fields(s) == FieldsAcc(s, <<>>)

\* strings.Join
RECURSIVE Join(_, _)
Join(ws, sep) ==
    IF ws = <<>> THEN <<>>
    ELSE IF Len(ws) = 1 THEN ws[1]
    ELSE ws[1] \o sep \o Join(Tail(ws), sep)

\* strings.HasPrefix
HasPrefix(s, p) == Len(p) <= Len(s) /\ SubSeq(s, 1, Len(p)) = p

(***************************************************************************)
(* normalizeCommand, prefixMatchByWords                                    *)
(***************************************************************************)
\* variant: the case of the letters kept
normalizeKeepCase(s) ==
    LET t == TrimSpace(s)
    IN  IF t = <<>> THEN t
        ELSE Join(Fields(ReplaceAll(ReplaceAll(t, <<"\r", "\n">>, <<"\n">>),
                                    <<"\t">>, <<" ">>)),
                  <<" ">>)

normalizeCommand(s) ==
    LET t == TrimSpace(s)
    IN  IF t = <<>> THEN t
        ELSE LET a == ReplaceAll(t, <<"\r", "\n">>, <<"\n">>)
                 b == ReplaceAll(a, <<"\t">>, <<" ">>)
                 c == Join(Fields(b), <<" ">>)
             IN  ToLower(c)

\* variant: the candidate must have exactly as many words as the input
prefixMatchSameLength(input, candidate) ==
    LET in == Fields(normalizeCommand(input))
        cand == Fields(normalizeCommand(candidate))
    IN  Len(in) # 0 /\ Len(cand) = Len(in)
        /\ \A i \in 1..Len(in) : HasPrefix(cand[i], in[i])

\* the loop of prefixMatchByWords from index i (1-based)
RECURSIVE PrefixLoop(_, _, _)
PrefixLoop(in, cand, i) ==
    IF i > Len(in) THEN TRUE
    ELSE IF ~HasPrefix(cand[i], in[i]) THEN FALSE
    ELSE PrefixLoop(in, cand, i + 1)

prefixMatchByWords(input, candidate) ==
    LET in == Fields(normalizeCommand(input))
        cand == Fields(normalizeCommand(candidate))
    IN  IF Len(in) = 0 THEN FALSE
        ELSE IF Len(cand) < Len(in) THEN FALSE
        ELSE PrefixLoop(in, cand, 1)

(***************************************************************************)
(* The table sim_device_commands and the gorm calls the handlers make      *)
(***************************************************************************)
NoRec == [id |-> 0]

Min(S) == CHOOSE x \in S : \A y \in S : x <= y

\* db.First(&item, id)
FirstById(st, id) ==
    LET hits == {i \in 1..Len(st) : st[i].id = id}
    IN  IF hits = {} THEN NoRec ELSE st[Min(hits)]

\* variant: the command compared as written, without LOWER()
KeyMatchExactCase(r, ns, dev, cmd) ==
    r.namespace = ns /\ r.device_name = dev /\ r.command = cmd

\* "namespace = ? AND device_name = ? AND LOWER(command) = LOWER(?)"
KeyMatch(r, ns, dev, cmd) ==
    /\ r.namespace = ns
    /\ r.device_name = dev
    /\ ToLower(r.command) = ToLower(cmd)

\* db.Where(<KeyMatch>).First(&existing): the matching row of least id
FirstByKey(st, ns, dev, cmd) ==
    LET hits == {i \in 1..Len(st) : KeyMatch(st[i], ns, dev, cmd)}
    IN  IF hits = {} THEN NoRec ELSE st[Min(hits)]

\* d.Model(&row).Updates(map): the columns of the map, on the row of that id
Assign(row, upd) ==
    [f \in DOMAIN row |-> IF f \in DOMAIN upd THEN upd[f] ELSE row[f]]

Updates(st, id, upd) ==
    [i \in 1..Len(st) |-> IF st[i].id = id THEN Assign(st[i], upd) ELSE st[i]]

\* d.Create(&req): the row gets the next primary key
NewRow(req, id) ==
    [id |-> id,
     namespace |-> req.namespace,
     device_name |-> req.device_name,
     command |-> req.command,
     output |-> req.output,
     enabled |-> req.enabled]

Create(st, req, id) == Append(st, NewRow(req, id))

\* d.Delete(&item) / d.Delete(&model.SimDeviceCommand{}, id)
Delete(st, id) == SelectSeq(st, LAMBDA r : r.id # id)

\* strconv.Atoi on the id path parameter, the error dropped (0 on error)
Digit(c) ==
    CASE c = "0" -> 0 [] c = "1" -> 1 [] c = "2" -> 2 [] c = "3" -> 3
      [] c = "4" -> 4 [] c = "5" -> 5 [] c = "6" -> 6 [] c = "7" -> 7
      [] c = "8" -> 8 [] c = "9" -> 9 [] OTHER -> -1

RECURSIVE AtoiDigits(_, _)
AtoiDigits(s, acc) ==
    IF s = <<>> THEN acc
    ELSE IF Digit(Head(s)) < 0 THEN -1
    ELSE AtoiDigits(Tail(s), 10 * acc + Digit(Head(s)))

Atoi(s) ==
    LET neg == s # <<>> /\ Head(s) = "-"
        body == IF s # <<>> /\ Head(s) \in {"-", "+"} THEN Tail(s) ELSE s
        n == IF body = <<>> THEN -1 ELSE AtoiDigits(body, 0)
    IN  IF n < 0 THEN 0 ELSE IF neg THEN 0 - n ELSE n

(***************************************************************************)
(* Responses.  status is the HTTP status, code the "code" field; message   *)
(* abbreviates the "message" field; data is the row in "data" (NoRec when  *)
(* the response carries none; Updates with a map also assigns the map's    *)
(* values to the struct passed to Model, so the row is the written one);   *)
(* calls counts the store calls (reads and writes) the handler issued; out *)
(* carries match_type and output of a match response.  key echoes the key  *)
(* (namespace, device_name, command) a create or update request resolved   *)
(* to, NoKey otherwise.                                                    *)
(***************************************************************************)
NoOut == [match_type |-> "", output |-> <<>>]

NoKey == [namespace |-> <<>>, device_name |-> <<>>, command |-> <<>>]

Resp(op, status, code, message, data, calls) ==
    [op |-> op, key |-> NoKey, status |-> status, code |-> code,
     message |-> message, data |-> data, calls |-> calls, out |-> NoOut,
     log |-> <<>>]

KeyOf(r) ==
    [namespace |-> r.namespace, device_name |-> r.device_name, command |-> r.command]

\* the outcome o, its response echoing key k
Keyed(o, k) == [o EXCEPT !.resp.key = k]

Outcome(st, nid, resp) == [store |-> st, nextId |-> nid, resp |-> resp]

(***************************************************************************)
(* CreateSimDeviceCmd                                                      *)
(***************************************************************************)
\* variant: the request's enabled flag taken as sent
CreateTrimKeepFlag(req) ==
    [namespace |-> TrimSpace(req.namespace),
     device_name |-> TrimSpace(req.device_name),
     command |-> TrimSpace(req.command),
     output |-> req.output,
     enabled |-> req.enabled]

\* variant: the command left untrimmed
CreateTrimNoCommand(req) ==
    [namespace |-> TrimSpace(req.namespace),
     device_name |-> TrimSpace(req.device_name),
     command |-> req.command,
     output |-> req.output,
     enabled |-> TRUE]

\* the request after the three TrimSpace calls and the enabled default
CreateTrim(req) ==
    [namespace |-> TrimSpace(req.namespace),
     device_name |-> TrimSpace(req.device_name),
     command |-> TrimSpace(req.command),
     output |-> req.output,
     enabled |-> IF ~req.enabled THEN TRUE ELSE req.enabled]

\* variant: the device name not required
CreateMissingNoDevice(r) == r.namespace = <<>> \/ r.command = <<>>

\* the check for a blank namespace, device name or command
CreateMissing(r) ==
    r.namespace = <<>> \/ r.device_name = <<>> \/ r.command = <<>>

\* variant: the upsert re-enables the row and keeps its output
CreateUpdateMapEnabledOnly(r) == [enabled |-> r.enabled]

\* the map of the upsert branch
CreateUpdateMap(r) == [output |-> r.output, enabled |-> r.enabled]

\* variant: the write looks the key up again, whatever the lookup returned
CreateWriteRecheck(st, nid, r, existing) ==
    LET now == FirstByKey(st, r.namespace, r.device_name, r.command)
    IN  IF now.id # 0
        THEN Outcome(Updates(st, now.id, CreateUpdateMap(r)), nid,
                     Resp("create", 200, "SUCCESS", "updated_existing",
                          Assign(now, CreateUpdateMap(r)), 2))
        ELSE Outcome(Create(st, r, nid), nid + 1,
                     Resp("create", 201, "SUCCESS", "created", NewRow(r, nid), 2))

\* the write of the handler, given what the lookup returned
CreateWrite(st, nid, r, existing) ==
    IF existing.id # 0
    THEN Outcome(Updates(st, existing.id, CreateUpdateMap(r)), nid,
                 Resp("create", 200, "SUCCESS", "updated_existing",
                      Assign(existing, CreateUpdateMap(r)), 2))
    ELSE Outcome(Create(st, r, nid), nid + 1,
                 Resp("create", 201, "SUCCESS", "created", NewRow(r, nid), 2))

\* the whole handler on table st
CreateOn(st, nid, req) ==
    LET r == CreateTrim(req)
    IN  IF CreateMissing(r)
        THEN Outcome(st, nid, Resp("create", 400, "MISSING_FIELDS", "missing", NoRec, 0))
        ELSE Keyed(CreateWrite(st, nid, r,
                               FirstByKey(st, r.namespace, r.device_name, r.command)),
                   KeyOf(r))

(***************************************************************************)
(* UpdateSimDeviceCmd                                                      *)
(***************************************************************************)
OrKeep(new, cur) == IF TrimSpace(new) = <<>> THEN cur ELSE TrimSpace(new)

\* newNS, newDev, newCmd
UpdateNewKey(req, item) ==
    [namespace |-> OrKeep(req.namespace, item.namespace),
     device_name |-> OrKeep(req.device_name, item.device_name),
     command |-> OrKeep(req.command, item.command)]

\* variant: a merge writes the request's output even when blank
UpdateMergeMapReqOutput(req, item) == [output |-> req.output, enabled |-> req.enabled]

\* upd: the map written to the other row in a merge
UpdateMergeMap(req, item) ==
    [output |-> IF TrimSpace(req.output) # <<>> THEN req.output ELSE item.output,
     enabled |-> req.enabled]

\* variant: the output written even when blank
UpdateNormalMapBlankOutput(req, item) ==
    LET k == UpdateNewKey(req, item)
    IN  [namespace |-> k.namespace, device_name |-> k.device_name,
         command |-> k.command, output |-> req.output, enabled |-> req.enabled]

\* update: the map written to the row itself otherwise
UpdateNormalMap(req, item) ==
    LET k == UpdateNewKey(req, item)
        put(c, f, v) == IF c THEN f :> v ELSE <<>>
    IN  put(k.namespace # item.namespace, "namespace", k.namespace)
        @@ put(k.device_name # item.device_name, "device_name", k.device_name)
        @@ put(k.command # item.command, "command", k.command)
        @@ put(TrimSpace(req.output) # <<>>, "output", req.output)
        @@ ("enabled" :> req.enabled)

\* whether the second lookup's row makes the update a merge
UpdateIsMerge(other, item) == other.id # 0 /\ other.id # item.id

UpdateMergeOn(st, nid, req, item, other) ==
    Outcome(Delete(Updates(st, other.id, UpdateMergeMap(req, item)), item.id), nid,
            Resp("update", 200, "SUCCESS", "merged",
                 Assign(other, UpdateMergeMap(req, item)), 4))

UpdateNormalOn(st, nid, req, item) ==
    Outcome(Updates(st, item.id, UpdateNormalMap(req, item)), nid,
            Resp("update", 200, "SUCCESS", "updated",
                 Assign(item, UpdateNormalMap(req, item)), 3))

UpdateOn(st, nid, idStr, req) ==
    LET id == Atoi(idStr)
    IN  IF id <= 0
        THEN Outcome(st, nid, Resp("update", 400, "INVALID_ID", "invalid_id", NoRec, 0))
        ELSE LET item == FirstById(st, id)
             IN  IF item.id = 0
                 THEN Outcome(st, nid, Resp("update", 404, "NOT_FOUND", "not_found", NoRec, 1))
                 ELSE LET k == UpdateNewKey(req, item)
                          other == FirstByKey(st, k.namespace, k.device_name, k.command)
                      IN  Keyed(IF UpdateIsMerge(other, item)
                                THEN UpdateMergeOn(st, nid, req, item, other)
                                ELSE UpdateNormalOn(st, nid, req, item),
                                k)

(***************************************************************************)
(* DeleteSimDeviceCmd, GetSimDeviceCmd                                     *)
(***************************************************************************)
DeleteOn(st, nid, idStr) ==
    LET id == Atoi(idStr)
    IN  IF id <= 0
        THEN Outcome(st, nid, Resp("delete", 400, "INVALID_ID", "invalid_id", NoRec, 0))
        ELSE Outcome(Delete(st, id), nid,
                     Resp("delete", 200, "SUCCESS", "deleted", NoRec, 1))

GetOn(st, nid, idStr) ==
    LET id == Atoi(idStr)
    IN  IF id <= 0
        THEN Outcome(st, nid, Resp("get", 400, "INVALID_ID", "invalid_id", NoRec, 0))
        ELSE LET item == FirstById(st, id)
             IN  IF item.id = 0
                 THEN Outcome(st, nid, Resp("get", 404, "NOT_FOUND", "not_found", NoRec, 1))
                 ELSE Outcome(st, nid, Resp("get", 200, "SUCCESS", "found", item, 1))

(***************************************************************************)
(* MatchSimDeviceCmd                                                       *)
(***************************************************************************)
Header ==
    <<"w", "h", "i", "c", "h", " ", "c", "o", "m", "m", "a", "n", "d", " ",
      "d", "o", " ", "y", "o", "u", " ", "m", "e", "a", "n", "?">>

LinePrefix == <<" ", "-", "-", " ">>

Unsupported ==
    <<"u", "n", "s", "p", "p", "o", "r", "t", " ",
      "c", "o", "m", "m", "a", "n", "d">>

\* variant: enabled_only ignored
MatchFilterAnyEnabled(st, ns, dev, enabledOnly) ==
    SelectSeq(st, LAMBDA r : r.namespace = ns /\ r.device_name = dev)

\* the rows "namespace = ? AND device_name = ?" [AND "enabled = 1"] selects,
\* as the table scan returns them: in primary-key order
MatchFilter(st, ns, dev, enabledOnly) ==
    SelectSeq(st, LAMBDA r : /\ r.namespace = ns
                             /\ r.device_name = dev
                             /\ (enabledOnly => r.enabled))

\* the scan "for _, it := range items" from index i
RECURSIVE MatchScan(_, _, _, _)
MatchScan(items, i, input, candidates) ==
    IF i > Len(items) THEN [exact |-> NoRec, candidates |-> candidates]
    ELSE IF normalizeCommand(input) = normalizeCommand(items[i].command)
         THEN [exact |-> items[i], candidates |-> candidates]
    ELSE MatchScan(items, i + 1, input,
                   IF prefixMatchByWords(input, items[i].command)
                   THEN Append(candidates, items[i])
                   ELSE candidates)

\* variant: the lines carry the normalized command
MatchLinesNormalized(candidates) ==
    <<Header>> \o [i \in 1..Len(candidates) |->
                      LinePrefix \o normalizeCommand(candidates[i].command)]

\* the lines of the partial_multi answer
MatchLines(candidates) ==
    <<Header>> \o [i \in 1..Len(candidates) |->
                      LinePrefix \o TrimSpace(candidates[i].command)]

\* variant: the candidates collected before the exact row decide first
MatchReplyPartialFirst(scan) ==
    IF Len(scan.candidates) = 1
    THEN [match_type |-> "partial_single", output |-> scan.candidates[1].output]
    ELSE IF Len(scan.candidates) > 1
    THEN [match_type |-> "partial_multi",
          output |-> Join(MatchLines(scan.candidates), <<"\n">>)]
    ELSE IF scan.exact.id # 0
    THEN [match_type |-> "exact", output |-> scan.exact.output]
    ELSE [match_type |-> "none", output |-> Unsupported]

\* variant: several candidates answered like one, with the first of them
MatchReplyFirstOfMany(scan) ==
    IF scan.exact.id # 0
    THEN [match_type |-> "exact", output |-> scan.exact.output]
    ELSE IF Len(scan.candidates) >= 1
    THEN [match_type |-> "partial_single", output |-> scan.candidates[1].output]
    ELSE [match_type |-> "none", output |-> Unsupported]

\* match_type and output, from what the scan found
MatchReply(scan) ==
    IF scan.exact.id # 0
    THEN [match_type |-> "exact", output |-> scan.exact.output]
    ELSE IF Len(scan.candidates) = 1
    THEN [match_type |-> "partial_single", output |-> scan.candidates[1].output]
    ELSE IF Len(scan.candidates) > 1
    THEN [match_type |-> "partial_multi",
          output |-> Join(MatchLines(scan.candidates), <<"\n">>)]
    ELSE [match_type |-> "none", output |-> Unsupported]

\* the handler, items being the rows as Find returned them
MatchOn(st, nid, req, items) ==
    LET input == TrimSpace(req.command)
    IN  IF TrimSpace(req.namespace) = <<>> \/ TrimSpace(req.device_name) = <<>>
           \/ input = <<>>
        THEN Outcome(st, nid, Resp("match", 400, "MISSING_FIELDS", "missing", NoRec, 0))
        ELSE LET reply == MatchReply(MatchScan(items, 1, input, <<>>))
             IN  Keyed(Outcome(st, nid,
                               [Resp("match", 200, "SUCCESS", reply.match_type, NoRec, 1)
                                   EXCEPT !.out = reply]),
                       req)

\* what q.Find(&items) returns for the request
MatchItems(st, req) ==
    MatchFilter(st, TrimSpace(req.namespace), TrimSpace(req.device_name),
                req.enabled_only)

(***************************************************************************)
(* Request pools                                                           *)
(***************************************************************************)
Procs == {"p", "q"}
Idle == [pc |-> "idle"]

Req(ns, dev, cmd, out, en) ==
    [namespace |-> ns, device_name |-> dev, command |-> cmd,
     output |-> out, enabled |-> en]

MatchReq(ns, dev, cmd, eo) ==
    [namespace |-> ns, device_name |-> dev, command |-> cmd, enabled_only |-> eo]

DigitStr(n) == <<CHOOSE c \in {"0", "1", "2", "3", "4", "5", "6", "7", "8", "9"} :
                    Digit(c) = n>>

\* id path parameters: malformed, zero, negative; and the ids up to the next one
BadIdStrs == {<<"x">>, <<"0">>, <<"-", "1">>}
RowIdStrs == {DigitStr(n) : n \in 1..nextId}

CmdA == <<"s", " ", "h">>
CmdACaps == <<"S", " ", "h", " ">>      \* CmdA in another case, padded
CmdATab == <<"s", "\t", "h">>           \* CmdA with a tab for the space

\* Spec: two commands and a case variant in namespace n, one command in m
CreateReqs ==
    {Req(<<"n">>, <<"d">>, cmd, out, TRUE) :
        cmd \in {CmdA, CmdACaps, CmdATab}, out \in {<<" ">>, <<"x">>}}
    \cup {Req(<<" ", "m">>, <<"d", " ">>, CmdA, out, TRUE) : out \in {<<" ">>, <<"x">>}}
    \cup {Req(<<"n">>, <<"d">>, CmdA, <<"x">>, FALSE),
          Req(<<" ">>, <<"d">>, CmdA, <<"x">>, TRUE),
          Req(<<"n">>, <<>>, CmdA, <<"x">>, TRUE),
          Req(<<"n">>, <<"d">>, <<"\t">>, <<"x">>, TRUE)}

\* Spec: keep the key; retarget the command inside n; move to m under CmdA
UpdateReqs ==
    {Req(<<>>, <<>>, <<>>, out, en) : out \in {<<" ">>, <<"x">>}, en \in BOOLEAN}
    \cup {Req(<<"n">>, <<" ">>, CmdACaps, <<" ">>, TRUE),
          Req(<<"n">>, <<" ">>, CmdACaps, <<"x">>, FALSE),
          Req(<<"n">>, <<" ">>, CmdATab, <<"x">>, TRUE),
          Req(<<"n">>, <<" ">>, CmdATab, <<" ">>, FALSE)}
    \cup {Req(<<"m", " ">>, <<"d">>, CmdA, <<" ">>, en) : en \in BOOLEAN}

(***************************************************************************)
(* The handlers run one at a time                                          *)
(***************************************************************************)
Apply(o) ==
    /\ store' = o.store
    /\ nextId' = o.nextId
    /\ last' = o.resp
    /\ UNCHANGED <<inflight, arg>>

CreateSimDeviceCmd(req) == Apply(CreateOn(store, nextId, req))

UpdateSimDeviceCmd(idStr, req) == Apply(UpdateOn(store, nextId, idStr, req))

DeleteSimDeviceCmd(idStr) == Apply(DeleteOn(store, nextId, idStr))

GetSimDeviceCmd(idStr) == Apply(GetOn(store, nextId, idStr))

MatchSimDeviceCmd(req) ==
    Apply(MatchOn(store, nextId, req, MatchItems(store, req)))

Init ==
    /\ store = <<>>
    /\ nextId = 1
    /\ inflight = [p \in Procs |-> Idle]
    /\ arg = <<>>
    /\ last = Resp("", 0, "", "", NoRec, 0)

\* whether the create would insert a row beyond the bound
Within(req, max) == CreateOn(store, nextId, req).nextId <= max + 1

Next ==
    \/ \E req \in CreateReqs : Within(req, MaxId) /\ CreateSimDeviceCmd(req)
    \/ \E idStr \in RowIdStrs, req \in UpdateReqs : UpdateSimDeviceCmd(idStr, req)
    \/ \E idStr \in BadIdStrs : UpdateSimDeviceCmd(idStr, Req(<<>>, <<>>, CmdA, <<"x">>, TRUE))
    \/ \E idStr \in BadIdStrs \cup RowIdStrs : DeleteSimDeviceCmd(idStr)

Spec == Init /\ [][Next]_vars

(***************************************************************************)
(* SpecRead: the same handlers, on a table seeded for matching             *)
(***************************************************************************)
SeedS == <<"s">>
SeedShI == <<"s", "h", " ", "i">>
SeedShICaps == <<"S", "h", " ", " ", "i">>  \* normalizes to SeedShI
SeedSoI == <<"s", "o", " ", "i">>

\* four commands on device d, each with its own output; one on device e
SeedReqs ==
    {Req(<<"n">>, <<"d">>, SeedS, <<"1">>, TRUE),
     Req(<<"n">>, <<"d">>, SeedShI, <<"2">>, TRUE),
     Req(<<"n">>, <<"d">>, SeedShICaps, <<"3">>, TRUE),
     Req(<<"n">>, <<"d">>, SeedSoI, <<"4">>, TRUE),
     Req(<<"n">>, <<"e">>, SeedShI, <<"5">>, TRUE)}

\* disable a row, every other field kept
DisableReq == Req(<<>>, <<>>, <<>>, <<>>, FALSE)

MatchInputs ==
    {<<"s">>, <<" ", "S", "H", "\t", "I">>, <<"s", " ", "i">>,
     <<"s", "h">>, <<"s", "o">>, <<"s", "h", " ", "x">>}

MatchReqs ==
    {MatchReq(<<"n">>, <<"d">>, cmd, eo) : cmd \in MatchInputs, eo \in BOOLEAN}
    \cup {MatchReq(<<" ", "n">>, <<"e", " ">>, <<"s", "h">>, FALSE),
          MatchReq(<<"n">>, <<" ">>, <<"s">>, FALSE),
          MatchReq(<<>>, <<"d">>, <<"s">>, FALSE),
          MatchReq(<<"n">>, <<"d">>, <<" ">>, FALSE)}

\* requests the validation rejects
BadCreateReqs ==
    {Req(<<" ">>, <<"d">>, SeedS, <<"1">>, TRUE),
     Req(<<"n">>, <<>>, SeedS, <<"1">>, TRUE),
     Req(<<"n">>, <<"d">>, <<"\t">>, <<"1">>, TRUE)}

NextRead ==
    \/ \E req \in SeedReqs \cup BadCreateReqs :
          Within(req, MaxSeed) /\ CreateSimDeviceCmd(req)
    \/ \E idStr \in BadIdStrs \cup {<<"1">>, DigitStr(nextId)} :
          UpdateSimDeviceCmd(idStr, DisableReq)
    \/ \E idStr \in BadIdStrs \cup {DigitStr(nextId)} : DeleteSimDeviceCmd(idStr)
    \/ \E idStr \in BadIdStrs \cup RowIdStrs : GetSimDeviceCmd(idStr)
    \/ \E req \in MatchReqs : MatchSimDeviceCmd(req)

SpecRead == Init /\ [][NextRead]_vars

(***************************************************************************)
(* SpecPure: normalizeCommand and prefixMatchByWords on drawn strings      *)
(***************************************************************************)
\* the characters of the first string and of the second
Chars == {"s", "h", "H", " ", "\t"}
CandChars == {"s", "H", " "}

\* the strings over cs of length up to n
Strs(cs, n) == UNION {[1..k -> cs] : k \in 0..n}

\* the result of a call, as last
Result(op, v) == [op |-> op, result |-> v]

InitPure ==
    /\ store = <<>>
    /\ nextId = 1
    /\ inflight = [p \in Procs |-> Idle]
    /\ arg \in Strs(Chars, MaxLen) \X Strs(CandChars, MaxLen)
    /\ last = Result("", <<>>)

\* normalizeCommand(arg[1])
CallNormalize ==
    /\ last' = Result("normalizeCommand", normalizeCommand(arg[1]))
    /\ UNCHANGED <<store, nextId, inflight, arg>>

\* prefixMatchByWords(arg[1], arg[2])
CallPrefixMatch ==
    /\ last' = Result("prefixMatchByWords", prefixMatchByWords(arg[1], arg[2]))
    /\ UNCHANGED <<store, nextId, inflight, arg>>

NextPure == CallNormalize \/ CallPrefixMatch

SpecPure == InitPure /\ [][NextPure]_vars

(***************************************************************************)
(* SpecConc: two requests in flight, each store call a step of its own     *)
(***************************************************************************)
CmdB == <<"h">>

\* two commands of one device; the updates retarget a row to one of them,
\* a blank output keeping the row's own
ConcCreateReqs ==
    {Req(<<"n">>, <<"d">>, CmdA, <<"x">>, TRUE),
     Req(<<"n">>, <<"d">>, CmdB, <<"x">>, TRUE)}

ConcUpdateReqs ==
    {Req(<<>>, <<>>, CmdA, <<" ">>, TRUE),
     Req(<<>>, <<>>, CmdB, <<" ">>, TRUE)}

AllIdle == \A p \in Procs : inflight[p] = Idle

\* the creates that have looked up and not yet written
Creating == {p \in Procs : inflight[p].pc = "create_write"}

\* CreateSimDeviceCmd up to and including the lookup (lines 48-67)
CreateLookup(p, req) ==
    LET r == CreateTrim(req)
    IN  /\ inflight[p] = Idle
        /\ ~CreateMissing(r)
        /\ nextId + Cardinality(Creating) <= MaxId
        /\ inflight' = [inflight EXCEPT ![p] =
              [pc |-> "create_write", req |-> r,
               existing |-> FirstByKey(store, r.namespace, r.device_name, r.command)]]
        /\ UNCHANGED <<store, nextId, arg, last>>

\* the upsert or the insert, and the response (lines 68-85)
CreateFinish(p) ==
    /\ inflight[p].pc = "create_write"
    /\ LET o == Keyed(CreateWrite(store, nextId, inflight[p].req, inflight[p].existing),
                      KeyOf(inflight[p].req))
       IN  /\ store' = o.store
           /\ nextId' = o.nextId
           /\ last' = o.resp
    /\ inflight' = [inflight EXCEPT ![p] = Idle]
    /\ UNCHANGED arg

\* UpdateSimDeviceCmd up to and including db.First(&item, id) (lines 138-156)
UpdateLoad(p, idStr, req) ==
    /\ inflight[p] = Idle
    /\ LET item == FirstById(store, Atoi(idStr))
       IN  IF Atoi(idStr) <= 0 \/ item.id = 0
           THEN Apply(UpdateOn(store, nextId, idStr, req))
           ELSE /\ inflight' = [inflight EXCEPT ![p] =
                      [pc |-> "update_lookup", req |-> req, item |-> item]]
                /\ UNCHANGED <<store, nextId, arg, last>>

\* the lookup of another row on the prospective key (lines 158-167)
UpdateLookup(p) ==
    /\ inflight[p].pc = "update_lookup"
    /\ LET k == UpdateNewKey(inflight[p].req, inflight[p].item)
       IN  inflight' = [inflight EXCEPT ![p] =
              [pc |-> "update_write", req |-> inflight[p].req, item |-> inflight[p].item,
               other |-> FirstByKey(store, k.namespace, k.device_name, k.command)]]
    /\ UNCHANGED <<store, nextId, arg, last>>

\* the update of the surviving row of a merge (lines 168-176), or the normal
\* update and its response (lines 181-193)
UpdateWrite(p) ==
    /\ inflight[p].pc = "update_write"
    /\ LET req == inflight[p].req
           item == inflight[p].item
           other == inflight[p].other
       IN  IF UpdateIsMerge(other, item)
           THEN /\ store' = Updates(store, other.id, UpdateMergeMap(req, item))
                /\ inflight' = [inflight EXCEPT ![p].pc = "update_delete"]
                /\ UNCHANGED <<nextId, arg, last>>
           ELSE LET o == Keyed(UpdateNormalOn(store, nextId, req, item),
                               UpdateNewKey(req, item))
                IN  /\ store' = o.store
                    /\ last' = o.resp
                    /\ inflight' = [inflight EXCEPT ![p] = Idle]
                    /\ UNCHANGED <<nextId, arg>>

\* the delete of the merged row and the response (lines 177-179)
UpdateDelete(p) ==
    /\ inflight[p].pc = "update_delete"
    /\ LET req == inflight[p].req
           item == inflight[p].item
           other == inflight[p].other
       IN  /\ store' = Delete(store, item.id)
           /\ last' = Keyed(UpdateMergeOn(store, nextId, req, item, other),
                            UpdateNewKey(req, item)).resp
    /\ inflight' = [inflight EXCEPT ![p] = Idle]
    /\ UNCHANGED <<nextId, arg>>

NextConc ==
    \/ \E p \in Procs, req \in ConcCreateReqs : CreateLookup(p, req)
    \/ \E p \in Procs : CreateFinish(p)
    \/ \E p \in Procs, idStr \in RowIdStrs, req \in ConcUpdateReqs :
          UpdateLoad(p, idStr, req)
    \/ \E p \in Procs : UpdateLookup(p)
    \/ \E p \in Procs : UpdateWrite(p)
    \/ \E p \in Procs : UpdateDelete(p)

SpecConc == Init /\ [][NextConc]_vars

(***************************************************************************)
(* SpecFail: the handlers when a mutating store call fails after its       *)
(* retries.  A failed call leaves the table as it was.                     *)
(***************************************************************************)
\* logger.Error(msg, "error", err) before the response of o
Logged(o, msg) == [o EXCEPT !.resp.log = Append(@, msg)]

\* the 500 response of a handler whose store call failed
Failed(st, nid, op, code, calls, msg) ==
    Logged(Outcome(st, nid, Resp(op, 500, code, "failed", NoRec, calls)), msg)

\* CreateSimDeviceCmd, its upsert or insert failing (lines 70-74, 79-83)
CreateFailOn(st, nid, req) ==
    LET r == CreateTrim(req)
    IN  IF CreateMissing(r) THEN CreateOn(st, nid, req)
        ELSE Keyed(IF FirstByKey(st, r.namespace, r.device_name, r.command).id # 0
                   THEN Failed(st, nid, "create", "UPSERT_FAILED", 2,
                               "Upsert sim device command failed")
                   ELSE Failed(st, nid, "create", "CREATE_FAILED", 2,
                               "Create sim device command failed"),
                   KeyOf(r))

\* variant: a merge whose survivor update failed still deletes the target
UpdateFailStillDeletes(st, nid, idStr, req) ==
    LET item == FirstById(st, Atoi(idStr))
        k == UpdateNewKey(req, item)
    IN  IF Atoi(idStr) <= 0 \/ item.id = 0 THEN UpdateOn(st, nid, idStr, req)
        ELSE Keyed(IF UpdateIsMerge(FirstByKey(st, k.namespace, k.device_name, k.command),
                                    item)
                   THEN Failed(Delete(st, item.id), nid, "update", "MERGE_FAILED", 4,
                               "Merge sim device command failed")
                   ELSE Failed(st, nid, "update", "UPDATE_FAILED", 3,
                               "Update sim device command failed"),
                   k)

\* UpdateSimDeviceCmd, its first write failing: the update of the surviving
\* row of a merge (lines 172-176) or the normal update (lines 188-192)
UpdateFailOn(st, nid, idStr, req) ==
    LET item == FirstById(st, Atoi(idStr))
        k == UpdateNewKey(req, item)
    IN  IF Atoi(idStr) <= 0 \/ item.id = 0 THEN UpdateOn(st, nid, idStr, req)
        ELSE Keyed(IF UpdateIsMerge(FirstByKey(st, k.namespace, k.device_name, k.command),
                                    item)
                   THEN Failed(st, nid, "update", "MERGE_FAILED", 3,
                               "Merge sim device command failed")
                   ELSE Failed(st, nid, "update", "UPDATE_FAILED", 3,
                               "Update sim device command failed"),
                   k)

\* variant: the failed delete of the merged row is reported to the caller
UpdateDeleteFailEscalated(st, nid, idStr, req) ==
    LET item == FirstById(st, Atoi(idStr))
        k == UpdateNewKey(req, item)
        other == FirstByKey(st, k.namespace, k.device_name, k.command)
    IN  IF Atoi(idStr) <= 0 \/ item.id = 0 \/ ~UpdateIsMerge(other, item)
        THEN UpdateOn(st, nid, idStr, req)
        ELSE Keyed(Failed(Updates(st, other.id, UpdateMergeMap(req, item)), nid,
                          "update", "MERGE_FAILED", 4,
                          "Merge sim device command failed"),
                   k)

\* UpdateSimDeviceCmd, the delete of the merged row failing: the error is
\* dropped (line 177) and the merge answered as usual (line 178)
UpdateDeleteFailOn(st, nid, idStr, req) ==
    LET item == FirstById(st, Atoi(idStr))
        k == UpdateNewKey(req, item)
        other == FirstByKey(st, k.namespace, k.device_name, k.command)
    IN  IF Atoi(idStr) <= 0 \/ item.id = 0 \/ ~UpdateIsMerge(other, item)
        THEN UpdateOn(st, nid, idStr, req)
        ELSE Keyed(Outcome(Updates(st, other.id, UpdateMergeMap(req, item)), nid,
                           UpdateMergeOn(st, nid, req, item, other).resp),
                   k)

\* DeleteSimDeviceCmd, its delete failing (lines 204-208)
DeleteFailOn(st, nid, idStr) ==
    IF Atoi(idStr) <= 0 THEN DeleteOn(st, nid, idStr)
    ELSE Failed(st, nid, "delete", "DELETE_FAILED", 1,
                "Delete sim device command failed")

CreateFails(req) == Apply(CreateFailOn(store, nextId, req))
UpdateFails(idStr, req) == Apply(UpdateFailOn(store, nextId, idStr, req))
UpdateDeleteFails(idStr, req) == Apply(UpdateDeleteFailOn(store, nextId, idStr, req))
DeleteFails(idStr) == Apply(DeleteFailOn(store, nextId, idStr))

\* requests of the failing calls: an upsert or insert, a retarget or a keep
FailCreateReqs ==
    {Req(<<"n">>, <<"d">>, CmdA, <<"x">>, TRUE),
     Req(<<"n">>, <<"d">>, CmdATab, <<" ">>, FALSE)}

FailUpdateReqs ==
    {Req(<<>>, <<>>, <<>>, <<"x">>, FALSE),
     Req(<<"n">>, <<" ">>, CmdACaps, <<" ">>, TRUE),
     Req(<<"n">>, <<" ">>, CmdATab, <<"x">>, FALSE)}

NextFail ==
    \/ \E req \in CreateReqs : Within(req, MaxId) /\ CreateSimDeviceCmd(req)
    \/ \E idStr \in RowIdStrs, req \in FailUpdateReqs : UpdateSimDeviceCmd(idStr, req)
    \/ \E idStr \in RowIdStrs : DeleteSimDeviceCmd(idStr)
    \/ \E req \in FailCreateReqs : CreateFails(req)
    \/ \E idStr \in RowIdStrs, req \in FailUpdateReqs : UpdateFails(idStr, req)
    \/ \E idStr \in RowIdStrs, req \in FailUpdateReqs : UpdateDeleteFails(idStr, req)
    \/ \E idStr \in RowIdStrs : DeleteFails(idStr)

SpecFail == Init /\ [][NextFail]_vars

(***************************************************************************)
(* Properties of the handlers run one at a time (Spec)                     *)
(***************************************************************************)
Rows(st) == 1..Len(st)
Blank(s) == TrimSpace(s) = <<>>
EqualFold(x, y) == ToLower(x) = ToLower(y)
SameScope(a, b) == a.namespace = b.namespace /\ a.device_name = b.device_name

\* the rows of st under key (ns, dev, cmd ignoring case)
KeyRows(st, ns, dev, cmd) ==
    {i \in Rows(st) : /\ st[i].namespace = ns
                      /\ st[i].device_name = dev
                      /\ EqualFold(st[i].command, cmd)}

ValidCreate(req) ==
    ~Blank(req.namespace) /\ ~Blank(req.device_name) /\ ~Blank(req.command)

\* two creates naming the same key in the same words, outputs differing
SameKeyPairs ==
    {<<Req(sc[1], sc[2], cmd, outs[1], TRUE), Req(sc[1], sc[2], cmd, outs[2], en)>> :
        sc \in {<<<<"n">>, <<"d">>>>, <<<<" ", "m">>, <<"d", " ">>>>},
        cmd \in {CmdA, CmdACaps, CmdATab},
        outs \in {<<<<" ">>, <<"x">>>>, <<<<"x">>, <<" ">>>>},
        en \in {FALSE}}

\* two creates for one namespace and device whose commands differ in letter
\* case, in leading or trailing whitespace, or in both
FoldPairs ==
    {<<Req(<<"n">>, <<"d">>, cmds[1], outs[1], TRUE),
       Req(<<" ", "n">>, <<"d", " ">>, cmds[2], outs[2], TRUE)>> :
        cmds \in {<<CmdA, CmdACaps>>, <<CmdACaps, CmdA>>,
                  <<CmdA, <<"\t", "s", " ", "h">>>>,
                  <<CmdATab, <<"S", "\t", "H", "\n">>>>},
        outs \in {<<<<" ">>, <<"x">>>>, <<<<"x">>, <<" ">>>>}}

\* C1: from the empty table, with the handlers run one at a time and every
\* store call succeeding, no two rows have the same namespace, the same
\* device_name and commands equal ignoring case.
C1_UniqueKey ==
    \A i, j \in Rows(store) :
        i # j => ~(SameScope(store[i], store[j])
                   /\ EqualFold(store[i].command, store[j].command))

\* C1 witness: after an update, two rows whose commands are equal ignoring
\* case stand in different namespaces.
C1_Witness ==
    /\ last.op = "update" /\ last.code = "SUCCESS"
    /\ \E i, j \in Rows(store) :
          /\ i # j
          /\ EqualFold(store[i].command, store[j].command)
          /\ store[i].namespace # store[j].namespace

\* C2: two creates in sequence with identical (namespace, device, command)
\* and differing output leave exactly one row for that key, holding the
\* second output; the second call inserts nothing and the row keeps the id
\* it had after the first call.
C2_IdempotentCreate ==
    \A pr \in SameKeyPairs :
           LET r1 == pr[1]
               r2 == pr[2]
               o1 == CreateOn(store, nextId, r1)
               o2 == CreateOn(o1.store, o1.nextId, r2)
               rows == KeyRows(o2.store, TrimSpace(r2.namespace),
                               TrimSpace(r2.device_name), TrimSpace(r2.command))
           IN  /\ ValidCreate(r1)
               /\ Cardinality(rows) = 1
               /\ \A i \in rows : /\ o2.store[i].output = r2.output
                                  /\ o2.store[i].id = o1.resp.data.id
               /\ Len(o2.store) = Len(o1.store)
               /\ o2.nextId = o1.nextId
               /\ o2.resp.code = "SUCCESS"

\* C2 witness: a create answered "updated existing record" for the very
\* command text stored, and the key's only row is the one it returned.
C2_Witness ==
    /\ last.op = "create" /\ last.message = "updated_existing"
    /\ last.key.command = last.data.command
    /\ \E i \in Rows(store) :
          /\ store[i] = last.data
          /\ KeyRows(store, last.key.namespace, last.key.device_name,
                     last.key.command) = {i}

\* C3 as stated: after a successful create, the rows of the request's scope
\* whose command normalizes (case and whitespace) to the request's command
\* are exactly one, holding the request's output.
C3_Original ==
    (last.op = "create" /\ last.code = "SUCCESS")
    => LET rows == {i \in Rows(store) :
                      /\ store[i].namespace = last.key.namespace
                      /\ store[i].device_name = last.key.device_name
                      /\ normalizeCommand(store[i].command)
                            = normalizeCommand(last.key.command)}
       IN  /\ Cardinality(rows) = 1
           /\ \A i \in rows : store[i].output = last.data.output

\* C3 amended: two creates in sequence for the same namespace and device
\* whose commands differ only by letter case or by leading or trailing
\* whitespace leave exactly one row for the key, holding the second output.
C3_CaseInsensitiveCreate ==
    \A pr \in FoldPairs :
        LET r1 == pr[1]
            r2 == pr[2]
            o1 == CreateOn(store, nextId, r1)
            o2 == CreateOn(o1.store, o1.nextId, r2)
            rows == KeyRows(o2.store, TrimSpace(r2.namespace),
                            TrimSpace(r2.device_name), TrimSpace(r2.command))
        IN  /\ Cardinality(rows) = 1
            /\ \A i \in rows : o2.store[i].output = r2.output
            /\ Len(o2.store) = Len(o1.store)

\* C3 witness: a create whose command differs in case from the stored text
\* updated the key's only row.
C3_Witness ==
    /\ last.op = "create" /\ last.message = "updated_existing"
    /\ last.key.command # last.data.command
    /\ EqualFold(last.key.command, last.data.command)
    /\ \E i \in Rows(store) :
          /\ store[i] = last.data
          /\ KeyRows(store, last.key.namespace, last.key.device_name,
                     last.key.command) = {i}

\* C4: rows A and B of one namespace and device with different commands; an
\* update of A whose resulting key is B's key leaves B stored under its id
\* with the request's output (A's former output if that is blank) and the
\* request's enabled flag, A gone, B in the response, and get(A.id)
\* answering not-found.
C4_MergeOnUpdate ==
    \A a, b \in Rows(store) :
        \A req \in UpdateReqs :
            LET A == store[a]
                B == store[b]
                idStr == DigitStr(A.id)
                ns == IF Blank(req.namespace) THEN A.namespace
                      ELSE TrimSpace(req.namespace)
                dev == IF Blank(req.device_name) THEN A.device_name
                       ELSE TrimSpace(req.device_name)
                cmd == IF Blank(req.command) THEN A.command
                       ELSE TrimSpace(req.command)
                o == UpdateOn(store, nextId, idStr, req)
                after == FirstById(o.store, B.id)
            IN  (/\ a # b
                 /\ SameScope(A, B)
                 /\ A.command # B.command
                 /\ ns = B.namespace /\ dev = B.device_name
                 /\ EqualFold(cmd, B.command))
                => /\ after = [B EXCEPT !.output = IF Blank(req.output)
                                                   THEN A.output ELSE req.output,
                                        !.enabled = req.enabled]
                   /\ FirstById(o.store, A.id).id = 0
                   /\ Len(o.store) = Len(store) - 1
                   /\ o.resp.code = "SUCCESS" /\ o.resp.data.id = B.id
                   /\ GetOn(o.store, o.nextId, idStr).resp.code = "NOT_FOUND"

\* C4 witness: an update answered "merged" and the surviving row it
\* returned is stored, in the scope the merged row had.
C4_Witness ==
    /\ last.op = "update" /\ last.message = "merged"
    /\ \E i \in Rows(store) : store[i] = last.data
    /\ last.key.namespace = last.data.namespace
    /\ EqualFold(last.key.command, last.data.command)

(***************************************************************************)
(* Properties of matching and validation (SpecRead)                        *)
(***************************************************************************)
ValidMatch(req) ==
    ~Blank(req.namespace) /\ ~Blank(req.device_name) /\ ~Blank(req.command)

\* the last response answers a match request that passed validation; the
\* request is last.key and the table is as the handler read it
Matched == last.op = "match" /\ last.status = 200

\* the indexes of the loaded candidates equal to the input once normalized
Exacts(req, items) ==
    {i \in Rows(items) :
        normalizeCommand(items[i].command) = normalizeCommand(req.command)}

\* the indexes of the loaded candidates the input positional-prefix matches
Partials(req, items) ==
    {i \in Rows(items) : prefixMatchByWords(req.command, items[i].command)}

\* C6: when a loaded candidate equals the input once normalized, the reply
\* is "exact" with the output of the first such candidate in store order,
\* whatever candidates prefix-match and wherever they stand.
C6_ExactFirst ==
    Matched =>
        LET items == MatchItems(store, last.key)
            ex == Exacts(last.key, items)
        IN  ex # {} => /\ last.out.match_type = "exact"
                       /\ last.message = "exact"
                       /\ last.out.output = items[Min(ex)].output

\* C6 witness: an "exact" reply to a request for which candidates with
\* other outputs prefix-match, one standing before the exact one and one
\* after it.
C6_Witness ==
    /\ Matched /\ last.out.match_type = "exact"
    /\ LET items == MatchItems(store, last.key)
           ex == Exacts(last.key, items)
       IN  /\ ex # {}
           /\ \E i, j \in Partials(last.key, items) :
                 /\ i < Min(ex) /\ Min(ex) < j
                 /\ items[i].output # last.out.output
                 /\ items[j].output # last.out.output

\* C8: with no exact candidate the count n of prefix-matching candidates
\* decides: 0 gives "none" with "unspport command", 1 gives
\* "partial_single" with that candidate's output, more give
\* "partial_multi"; every valid request gets one of the four types.
C8_Classification ==
    /\ \A req \in MatchReqs :
          ValidMatch(req) => MatchOn(store, nextId, req, <<>>).resp.status = 200
    /\ Matched =>
        LET items == MatchItems(store, last.key)
            part == Partials(last.key, items)
            n == Cardinality(part)
        IN  /\ last.out.match_type
                  \in {"exact", "partial_single", "partial_multi", "none"}
            /\ Exacts(last.key, items) = {} =>
                  /\ n = 0 => /\ last.out.match_type = "none"
                              /\ last.out.output
                                    = <<"u", "n", "s", "p", "p", "o", "r", "t", " ",
                                        "c", "o", "m", "m", "a", "n", "d">>
                  /\ n = 1 => /\ last.out.match_type = "partial_single"
                              /\ \A i \in part : last.out.output = items[i].output
                  /\ n > 1 => last.out.match_type = "partial_multi"

\* C8 witness: a "partial_single" reply to a request that loaded several
\* candidates of which exactly one prefix-matches.
C8_Witness ==
    /\ Matched /\ last.out.match_type = "partial_single"
    /\ LET items == MatchItems(store, last.key)
       IN  /\ Exacts(last.key, items) = {}
           /\ Cardinality(Partials(last.key, items)) = 1
           /\ Len(items) > 1

\* the lines " -- " + stored command of the candidates of items from index
\* i on that the input prefix-matches
RECURSIVE ExpectedLines(_, _, _)
ExpectedLines(input, items, i) ==
    IF i > Len(items) THEN <<>>
    ELSE (IF prefixMatchByWords(input, items[i].command)
          THEN <<<<" ", "-", "-", " ">> \o items[i].command>>
          ELSE <<>>)
         \o ExpectedLines(input, items, i + 1)

\* C9: a "partial_multi" output is the line "which command do you mean?"
\* followed, in store order, by one line " -- " + stored command text per
\* prefix-matching candidate, each once, no other candidate listed.
C9_MultiListing ==
    (Matched /\ last.out.match_type = "partial_multi")
    => last.out.output
          = Join(<<<<"w", "h", "i", "c", "h", " ", "c", "o", "m", "m", "a", "n", "d",
                     " ", "d", "o", " ", "y", "o", "u", " ", "m", "e", "a", "n", "?">>>>
                 \o ExpectedLines(last.key.command, MatchItems(store, last.key), 1),
                 <<"\n">>)

\* C9 witness: a "partial_multi" reply to a request that also loaded a
\* candidate that does not prefix-match.
C9_Witness ==
    /\ Matched /\ last.out.match_type = "partial_multi"
    /\ LET items == MatchItems(store, last.key)
       IN  Cardinality(Partials(last.key, items)) < Len(items)

\* what a rejected request leaves: the table as it was, a 400 with a
\* validation code, no store call
Rejected(o) ==
    /\ o.store = store /\ o.nextId = nextId
    /\ o.resp.status = 400
    /\ o.resp.code \in {"MISSING_FIELDS", "INVALID_ID"}
    /\ o.resp.calls = 0

\* C10: a create or match with a blank namespace, device or command, and a
\* get, update or delete whose id is not a positive integer, is answered
\* with a validation error before any store call, the table unchanged.
C10_ValidationFirst ==
    /\ \A req \in SeedReqs \cup BadCreateReqs :
          (Blank(req.namespace) \/ Blank(req.device_name) \/ Blank(req.command))
          => Rejected(CreateOn(store, nextId, req))
    /\ \A req \in MatchReqs :
          (Blank(req.namespace) \/ Blank(req.device_name) \/ Blank(req.command))
          => Rejected(MatchOn(store, nextId, req, MatchItems(store, req)))
    /\ \A idStr \in BadIdStrs :
          /\ Rejected(GetOn(store, nextId, idStr))
          /\ Rejected(DeleteOn(store, nextId, idStr))
          /\ \A req \in {DisableReq, Req(<<"n">>, <<"d">>, SeedS, <<"1">>, TRUE)} :
                Rejected(UpdateOn(store, nextId, idStr, req))

\* C10 witness: a request was rejected with no store call while rows were
\* stored.
C10_Witness ==
    /\ last.status = 400 /\ last.calls = 0
    /\ last.op \in {"create", "update", "delete", "get", "match"}
    /\ Len(store) > 0

(***************************************************************************)
(* Properties of prefixMatchByWords (SpecPure)                             *)
(***************************************************************************)
\* the positions where a word of s begins: a non-space at the start or
\* after a space
WordStarts(s) ==
    {i \in 1..Len(s) : ~IsSpace(s[i]) /\ (i = 1 \/ IsSpace(s[i - 1]))}

\* the k-th word of s in lower case: from the k-th start up to the next
\* space or the end
Word(s, k) ==
    LET b == CHOOSE i \in WordStarts(s) :
                 Cardinality({j \in WordStarts(s) : j <= i}) = k
        e == Min({j \in b..Len(s) : j = Len(s) \/ IsSpace(s[j + 1])})
    IN  [j \in 1..(e - b + 1) |-> ToLowerChar(s[b + j - 1])]

\* w begins with the characters of v
StartsWith(w, v) == Len(v) <= Len(w) /\ \A j \in 1..Len(v) : w[j] = v[j]

\* C7: prefixMatchByWords(input, candidate) is true exactly when the input
\* has at least one word, the candidate has at least as many words, and
\* at every index of the input's words the candidate's word starts with
\* the input's word, words being taken case-folded.
C7_PrefixByWords ==
    last.op = "prefixMatchByWords"
    => LET n == Cardinality(WordStarts(arg[1]))
           m == Cardinality(WordStarts(arg[2]))
       IN  last.result
              = (/\ n >= 1
                 /\ m >= n
                 /\ \A i \in 1..n : StartsWith(Word(arg[2], i), Word(arg[1], i)))

\* C7 witness: a call answered true for a two-word input and a candidate
\* that differs from it in case and spacing.
C7_Witness ==
    /\ last.op = "prefixMatchByWords" /\ last.result
    /\ Cardinality(WordStarts(arg[1])) = 2
    /\ arg[1] # arg[2]
    /\ \E i \in 1..Len(arg[2]) : arg[2][i] = "H"

(***************************************************************************)
(* Properties of the handlers under concurrency (SpecConc)                 *)
(***************************************************************************)
\* pairs of rows of st under one key
Dups(st) ==
    {<<i, j>> \in Rows(st) \X Rows(st) :
        /\ i < j
        /\ SameScope(st[i], st[j])
        /\ EqualFold(st[i].command, st[j].command)}

\* o is a success of a handler whose key is the key of row
Touches(o, row) ==
    /\ o.resp.code = "SUCCESS"
    /\ o.resp.key.namespace = row.namespace
    /\ o.resp.key.device_name = row.device_name
    /\ EqualFold(o.resp.key.command, row.command)

\* the number of rows of st under the key of row
UnderKey(st, row) ==
    Cardinality(KeyRows(st, row.namespace, row.device_name, row.command))

\* C5: when two raced creates have left two rows under one key and no
\* request is in flight, a create or an update that ends on that key with
\* success, run alone, leaves exactly one row under the key.
C5_ConvergeOnNextWrite ==
    (AllIdle /\ last.op = "create" /\ last.message = "created")
    => \A d \in Dups(store) :
          /\ \A req \in CreateReqs :
                LET o == CreateOn(store, nextId, req)
                IN  Touches(o, store[d[1]]) => UnderKey(o.store, store[d[1]]) = 1
          /\ \A idStr \in RowIdStrs, req \in ConcUpdateReqs :
                LET o == UpdateOn(store, nextId, idStr, req)
                IN  Touches(o, store[d[1]]) => UnderKey(o.store, store[d[1]]) = 1

(***************************************************************************)
(* Properties of the id-addressed handlers on absent ids (SpecRead)        *)
(***************************************************************************)
\* the positive ids, up to the next one, that no row of the table has
AbsentIdStrs == {idStr \in RowIdStrs : FirstById(store, Atoi(idStr)).id = 0}

\* o reports not-found and leaves the table as it is
NotFound(o) == o.resp.code = "NOT_FOUND" /\ o.resp.status = 404 /\ o.store = store

\* C11: get, update and delete called with a positive id that no row has
\* each answer not-found and leave the table unchanged.
C11_NotFoundOnAbsentId ==
    \A idStr \in AbsentIdStrs :
        /\ NotFound(GetOn(store, nextId, idStr))
        /\ NotFound(UpdateOn(store, nextId, idStr, DisableReq))
        /\ NotFound(DeleteOn(store, nextId, idStr))

(***************************************************************************)
(* Properties of the handlers when a store call fails (SpecFail)           *)
(***************************************************************************)
\* no two rows of st under one key
NoSharedKey(st) ==
    \A i, j \in Rows(st) :
        i # j => ~(SameScope(st[i], st[j]) /\ EqualFold(st[i].command, st[j].command))

\* C12: in a merging update whose update of the surviving row succeeds and
\* whose delete of the target row fails, the caller receives success with
\* the surviving row, which holds the merged output and enabled flag; the
\* target row stays stored as it was; no two rows share a key.
C12_MergeDeleteFails ==
    \A a, b \in Rows(store) :
        \A req \in FailUpdateReqs :
            LET A == store[a]
                B == store[b]
                k == UpdateNewKey(req, A)
                o == UpdateDeleteFailOn(store, nextId, DigitStr(A.id), req)
                merged == [B EXCEPT !.output = IF Blank(req.output)
                                               THEN A.output ELSE req.output,
                                    !.enabled = req.enabled]
            IN  (/\ a # b
                 /\ NoSharedKey(store)
                 /\ KeyMatch(B, k.namespace, k.device_name, k.command))
                => /\ o.resp.status = 200 /\ o.resp.code = "SUCCESS"
                   /\ o.resp.data = merged
                   /\ FirstById(o.store, B.id) = merged
                   /\ FirstById(o.store, A.id) = A
                   /\ Len(o.store) = Len(store)
                   /\ NoSharedKey(o.store)

\* C12 witness: an update answered "merged" on a table no row of which was
\* ever deleted, the surviving row stored as returned.
C12_Witness ==
    /\ last.op = "update" /\ last.message = "merged"
    /\ Len(store) = nextId - 1 /\ Len(store) > 1
    /\ \E i \in Rows(store) : store[i] = last.data

(***************************************************************************)
(* Properties of normalizeCommand (SpecPure)                               *)
(***************************************************************************)
\* s and t have the same words once case-folded: they differ at most in
\* letter case, in leading or trailing whitespace, and in the kind and
\* length of the whitespace between words
SameWords(s, t) ==
    /\ Cardinality(WordStarts(s)) = Cardinality(WordStarts(t))
    /\ \A i \in 1..Cardinality(WordStarts(s)) : Word(s, i) = Word(t, i)

C14_RacedCreatesInsertTwice ==
    \A p, q \in Procs :
        (/\ p # q
         /\ inflight[p].pc = "create_write" /\ inflight[q].pc = "create_write"
         /\ inflight[p].existing.id = 0 /\ inflight[q].existing.id = 0
         /\ SameScope(inflight[p].req, inflight[q].req)
         /\ EqualFold(inflight[p].req.command, inflight[q].req.command))
        => LET first == CreateWrite(store, nextId, inflight[p].req, inflight[p].existing)
               second == CreateWrite(first.store, first.nextId,
                                     inflight[q].req, inflight[q].existing)
           IN  /\ UnderKey(store, inflight[p].req) = 0
               /\ first.resp.status = 201 /\ second.resp.status = 201
               /\ first.resp.data.id # second.resp.data.id
               /\ UnderKey(second.store, inflight[p].req) = 2

\* C14 witness: both creates have completed, the second answered "created"
\* like the first, and the two rows of the table share a key.
C14_Witness ==
    /\ AllIdle
    /\ last.op = "create" /\ last.message = "created"
    /\ Len(store) = 2 /\ nextId = 3
    /\ Dups(store) = {<<1, 2>>}

\* C15: when concurrent updates of two rows of one namespace and device
\* have all completed, the row the last of them returned as the survivor
\* of its merge is stored.
C15_SurvivorStored ==
    (AllIdle /\ last.op = "update" /\ last.message = "merged")
    => FirstById(store, last.data.id).id # 0

(***************************************************************************)
(* Properties of the normal update and of create's enabled flag (Spec)     *)
(***************************************************************************)
\* the value a key field takes: the trimmed request value unless blank
Taken(new, cur) == IF Blank(new) THEN cur ELSE TrimSpace(new)

\* C16: an update that finds no other row on the prospective key changes on
\* the target row only the key fields whose trimmed request value is
\* non-blank, the output when the request's is non-blank, and enabled,
\* set to the request's flag; the id and every other row stay as they are.
C16_NormalUpdateFrame ==
    \A a \in Rows(store) :
        \A req \in UpdateReqs :
            LET A == store[a]
                ns == Taken(req.namespace, A.namespace)
                dev == Taken(req.device_name, A.device_name)
                cmd == Taken(req.command, A.command)
                o == UpdateOn(store, nextId, DigitStr(A.id), req)
                expected == [id |-> A.id, namespace |-> ns, device_name |-> dev,
                             command |-> cmd,
                             output |-> IF Blank(req.output) THEN A.output
                                        ELSE req.output,
                             enabled |-> req.enabled]
            IN  KeyRows(store, ns, dev, cmd) \subseteq {a}
                => /\ o.resp.code = "SUCCESS" /\ o.resp.message = "updated"
                   /\ o.resp.data = expected
                   /\ o.store = [store EXCEPT ![a] = expected]
                   /\ o.nextId = nextId

\* C16 witness: a normal update moved a row to namespace m and disabled
\* it, its output kept, another row stored beside it.
C16_Witness ==
    /\ last.op = "update" /\ last.message = "updated"
    /\ last.data.namespace = <<"m">> /\ ~last.data.enabled
    /\ last.data.output = <<"x">>
    /\ Len(store) = 2
    /\ \E i \in Rows(store) : store[i] = last.data

\* C17: after every successful create, inserting or updating, the row for
\* the key is enabled whatever flag the request carried; a create on the key
\* of a disabled row re-enables it.
C17_CreateEnables ==
    \A req \in CreateReqs :
        LET o == CreateOn(store, nextId, req)
            k == o.resp.key
            hits == KeyRows(o.store, k.namespace, k.device_name, k.command)
        IN  o.resp.code = "SUCCESS"
            => /\ hits # {}
               /\ \A i \in hits : o.store[i].enabled
               /\ o.resp.data.enabled

\* C17 witness: a disabled row stands under the key of a create request that
\* carries enabled = false, and that create leaves the row enabled.
C17_Witness ==
    /\ last.op = "update" /\ last.code = "SUCCESS" /\ ~last.data.enabled
    /\ \E i \in Rows(store), req \in CreateReqs :
          /\ ~store[i].enabled /\ ~req.enabled
          /\ Touches(CreateOn(store, nextId, req), store[i])
          /\ CreateOn(store, nextId, req).resp.message = "updated_existing"
          /\ FirstById(CreateOn(store, nextId, req).store, store[i].id).enabled

(***************************************************************************)
(* Properties of the rows a match considers (SpecRead)                     *)
(***************************************************************************)
\* the reply to req on table st
ReplyOn(st, req) == MatchOn(st, nextId, req, MatchItems(st, req)).resp.out

\* the rows of the table in the namespace and device of req
InScope(req) ==
    SelectSeq(store, LAMBDA r : /\ r.namespace = TrimSpace(req.namespace)
                                /\ r.device_name = TrimSpace(req.device_name))

\* C18: a match considers only the rows of the request's namespace and
\* device; with enabled_only set it answers as if the disabled rows were
\* not stored, and no disabled row is the exact or single partial match;
\* with enabled_only unset it answers as if every row were enabled.
C18_MatchScope ==
    Matched =>
        LET req == last.key
            enabledRows == SelectSeq(InScope(req), LAMBDA r : r.enabled)
            allEnabled == [i \in Rows(store) |-> [store[i] EXCEPT !.enabled = TRUE]]
        IN  /\ last.out = ReplyOn(InScope(req), req)
            /\ req.enabled_only
                  => last.out = ReplyOn(enabledRows, [req EXCEPT !.enabled_only = FALSE])
            /\ ~req.enabled_only => last.out = ReplyOn(allEnabled, req)
            /\ last.out.match_type \in {"exact", "partial_single"}
                  => /\ \E i \in Rows(InScope(req)) :
                           InScope(req)[i].output = last.out.output
                     /\ \A i \in Rows(store) :
                           store[i].output = last.out.output
                           => /\ store[i].namespace = TrimSpace(req.namespace)
                              /\ store[i].device_name = TrimSpace(req.device_name)
                              /\ req.enabled_only => store[i].enabled

\* C18 witness: a match with enabled_only set whose reply differs from the
\* reply to the same request with enabled_only unset, rows of another
\* device being stored.
C18_Witness ==
    /\ Matched /\ last.key.enabled_only
    /\ last.out # ReplyOn(store, [last.key EXCEPT !.enabled_only = FALSE])
    /\ Len(InScope(last.key)) < Len(store)

\* the updates of row a of the table that merge it into another row
MergingReqs(a) ==
    {req \in FailUpdateReqs :
        LET k == UpdateNewKey(req, store[a])
        IN  UpdateIsMerge(FirstByKey(store, k.namespace, k.device_name, k.command),
                          store[a])}

\* C19: every mutating store call that fails after its retries is reported
\* to the logger: the insert and the upsert of create, the normal update,
\* the survivor update and the target delete of a merge, and the delete of
\* delete.
C19_FailuresLogged ==
    /\ \A req \in FailCreateReqs : CreateFailOn(store, nextId, req).resp.log # <<>>
    /\ \A a \in Rows(store) :
          /\ DeleteFailOn(store, nextId, DigitStr(store[a].id)).resp.log # <<>>
          /\ \A req \in FailUpdateReqs :
                UpdateFailOn(store, nextId, DigitStr(store[a].id), req).resp.log # <<>>
          /\ \A req \in MergingReqs(a) :
                UpdateDeleteFailOn(store, nextId, DigitStr(store[a].id), req).resp.log
                   # <<>>

\* o is the failure `code` of a handler that issued `calls` store calls and
\* left the table as it was
FailedWith(o, code, calls) ==
    /\ o.resp.status = 500 /\ o.resp.code = code
    /\ o.resp.calls = calls
    /\ o.store = store /\ o.nextId = nextId

\* C20: when the first mutating store call of an operation fails after its
\* retries, the operation answers with its own failure code, never
\* success, issues no further write (a failed survivor update is not
\* followed by the delete of the target), and leaves the table as it was.
C20_FirstWriteFails ==
    /\ \A req \in FailCreateReqs :
          LET r == CreateTrim(req)
          IN  FailedWith(CreateFailOn(store, nextId, req),
                         IF KeyRows(store, r.namespace, r.device_name, r.command) # {}
                         THEN "UPSERT_FAILED" ELSE "CREATE_FAILED",
                         2)
    /\ \A a \in Rows(store) :
          /\ FailedWith(DeleteFailOn(store, nextId, DigitStr(store[a].id)),
                        "DELETE_FAILED", 1)
          /\ \A req \in FailUpdateReqs :
                FailedWith(UpdateFailOn(store, nextId, DigitStr(store[a].id), req),
                           IF KeyRows(store, Taken(req.namespace, store[a].namespace),
                                      Taken(req.device_name, store[a].device_name),
                                      Taken(req.command, store[a].command))
                                 \subseteq {a}
                           THEN "UPDATE_FAILED" ELSE "MERGE_FAILED",
                           3)

\* C20 witness: a merge answered MERGE_FAILED, both rows still stored.
C20_Witness ==
    /\ last.op = "update" /\ last.code = "MERGE_FAILED" /\ last.status = 500
    /\ Len(store) = 2 /\ nextId = 3
    /\ \E i \in Rows(store) : EqualFold(store[i].command, last.key.command)

====
